---- MODULE Spec2Model ----
(***************************************************************************)
(* GIF to character-art converter (new.py): the command-line driver, the   *)
(* frame decoder/resampler loop, the brightness mapper and the renderers.  *)
(*                                                                         *)
(* Numbers.  Python computes brightness, scales and delays in binary       *)
(* floating point.  The model uses exact rationals written as a numerator  *)
(* over a fixed denominator:                                               *)
(*   - brightness is kept in thirds (numerator r+g+b over 3).  The exact   *)
(*     value of brightness/256*N, N = 10, is a multiple of 1/384: it is    *)
(*     either an integer reached with exactly representable operands       *)
(*     (mean 128.0, 127.0) or at least 1/384 away from an integer, far     *)
(*     more than the float64 rounding error, so int() of the float equals  *)
(*     the floor of the exact value;                                       *)
(*   - scales and speeds are numerators over ScaleDen and SpeedDen; with   *)
(*     halves float64 represents them and their products exactly.          *)
(***************************************************************************)
EXTENDS Integers, Sequences, FiniteSets, TLC

\* ------------------------------------------------------------------ bounds

MaxSkew == 2         \* mapper inputs: blue channel is up to MaxSkew above red/green
GrayStep == 32       \* mapper inputs: second pixel is a gray level around each multiple
MaxFrames == 2       \* stored frames of an input image
MaxDim == 2          \* width and height of an input image, in pixels
MaxRequests == 3     \* concurrent /api/convert requests of the one user
MaxTokens == 2       \* the user's token balance when the requests arrive
ScaleDen == 2        \* scales explored are the multiples of 1/ScaleDen up to 1 + 1/ScaleDen
SpeedDen == 2        \* speeds explored are -1, 0, 1/SpeedDen, 1 and 2

\* --------------------------------------------------------- program constants

ChannelMax == 255    \* 8-bit channel; "255 - brightness"
BrightnessDiv == 256 \* "brightness / 256.0"
DefaultDelay == 100  \* img.info.get('duration', 100)
DashCount == 50      \* "-" * 50
TokensNeeded == 1    \* tokens_needed = 1

\* ASCII character table for brightness mapping, darkest first
ASCII_TABLE == <<" ", ".", ":", "-", "=", "+", "*", "#", "%", "@">>

Min(a, b) == IF a <= b THEN a ELSE b

\* int(): truncation toward zero of the rational n/d, d # 0
Trunc(n, d) ==
    LET an == IF n < 0 THEN -n ELSE n
        ad == IF d < 0 THEN -d ELSE d
        q  == an \div ad
    IN IF (n < 0) = (d < 0) THEN q ELSE -q

\* ------------------------------------------------------- brightness mapper

\* np.all(pixel == 0)
IsBlack(pixel) == \A c \in 1..3 : pixel[c] = 0

BrightnessNoInverse(pixel, inverse) == pixel[1] + pixel[2] + pixel[3]

BrightnessLuma(pixel, inverse) ==
    LET luma3 == (3 * (299 * pixel[1] + 587 * pixel[2] + 114 * pixel[3])) \div 1000
    IN IF inverse THEN 3 * ChannelMax - luma3 ELSE luma3

\* np.mean(pixel[:3]), then 255 - brightness when inverse: in thirds
Brightness(pixel, inverse) ==
    LET sum3 == pixel[1] + pixel[2] + pixel[3]
    IN IF inverse THEN 3 * ChannelMax - sum3 ELSE sum3

\* int((brightness / 256.0) * len(ASCII_TABLE)), then min(.., len - 1); 0-based
CharIdx(pixel, inverse) ==
    LET n   == Len(ASCII_TABLE)
        idx == (Brightness(pixel, inverse) * n) \div (3 * BrightnessDiv)
    IN Min(idx, n - 1)

PixelToCellNoBlackTest(pixel, use_color, fill_color, inverse) ==
    [char  |-> ASCII_TABLE[CharIdx(pixel, inverse) + 1],
     color |-> IF use_color THEN pixel ELSE fill_color]

\* the body of the per-pixel loop: one (char, color) cell
PixelToCell(pixel, use_color, fill_color, inverse) ==
    IF IsBlack(pixel)
    THEN [char |-> " ", color |-> fill_color]
    ELSE [char  |-> ASCII_TABLE[CharIdx(pixel, inverse) + 1],
          color |-> IF use_color THEN pixel ELSE fill_color]

\* frame_pixels: a list of columns, each a list of cells; pixel = frame_array[y, x]
MapFrame(frame, use_color, fill_color, inverse) ==
    [x \in 1..frame.width |->
        [y \in 1..frame.height |->
            PixelToCell(frame.px[y][x], use_color, fill_color, inverse)]]

ExceptReturnPartial(fs, ds) == [pixels |-> <<>>, delays |-> ds]

\* except Exception: return [], []
ExceptReturn(fs, ds) == [pixels |-> <<>>, delays |-> <<>>]

\* ------------------------------------------------------------ the inputs

\* pixel values a resampled frame is made of (the LANCZOS filter's output is
\* not computed: a frame's pixels are a fixed pattern over these values)
Palette == << <<0, 0, 0>>, <<128, 128, 128>>, <<255, 255, 255>>, <<10, 0, 0>> >>

NoDuration == 0 - 1   \* a frame whose info has no 'duration' entry

\* what the input path holds: nothing, a file PIL cannot open, or an image
\* with n_frames stored frames; corrupt = k > 0: loading frame k raises
\* (the model breaks the last frame or none)
NoFile   == [kind |-> "missing", width |-> 0, height |-> 0, n_frames |-> 0,
             durations |-> <<>>, corrupt |-> 0]
BadFile  == [kind |-> "unreadable", width |-> 0, height |-> 0, n_frames |-> 0,
             durations |-> <<>>, corrupt |-> 0]
Images ==
    { [kind |-> "image", width |-> w, height |-> h, n_frames |-> n,
       durations |-> [k \in 1..n |-> IF timed THEN 25 * k ELSE NoDuration],
       corrupt |-> IF broken THEN n ELSE 0] :
        w \in 1..MaxDim, h \in 1..MaxDim, n \in 1..MaxFrames,
        timed \in BOOLEAN, broken \in BOOLEAN }
Inputs == {NoFile, BadFile} \cup Images

ScaleValues == 0..(ScaleDen + 1)                 \* 0.0 .. 1.0 and one step above
SpeedValues == {0 - SpeedDen, 0, 1, SpeedDen, 2 * SpeedDen}
White == <<255, 255, 255>>
FillColors == {White, <<0, 0, 0>>}

\* parser.parse_args(): the options the pipeline reads
ArgSets ==
    [scale : ScaleValues \X ScaleValues, speed : SpeedValues,
     inverse : BOOLEAN, color : BOOLEAN, ascii : BOOLEAN, fillcolor : FillColors]

\* ------------------------------------------------------------- the state

VARIABLES
    args,         \* the parsed command line
    input,        \* what the input path holds
    pc,           \* position in main / convert_to_ascii
    img_opened,   \* Image.open(input_file) has returned an image
    n_loaded,     \* frames read from the decoder (img.convert / img.copy calls)
    tell,         \* img.tell(), 0-based
    frames,       \* convert_to_ascii: frames
    delays,       \* convert_to_ascii: delays
    returned,     \* which return of convert_to_ascii ran
    ascii_data,   \* main: ascii_data
    ret_delays,   \* main: delays
    renderer,     \* the renderer main called, "none" before
    out_opened,   \* the output path has been opened for writing
    out_file,     \* what the output path holds
    success,      \* main: success
    exit_status,  \* <<>> while running, <<code>> once the process has ended
    stdout,       \* the messages printed, in order
    log,          \* the stage steps taken so far, in order: (stage, frame)
    web           \* the web front end (app.py): the user's row and its requests

vars == <<args, input, pc, img_opened, n_loaded, tell, frames, delays, returned,
          ascii_data, ret_delays, renderer, out_opened, out_file, success, exit_status,
          stdout, log, web>>

NoOutput == [kind |-> "absent", lines |-> <<>>, images |-> <<>>, save |-> <<>>]

Fresh ==
    /\ img_opened = FALSE
    /\ n_loaded = 0
    /\ tell = 0
    /\ returned = "none"
    /\ ascii_data = <<>>
    /\ ret_delays = <<>>
    /\ renderer = "none"
    /\ out_opened = FALSE
    /\ out_file = NoOutput
    /\ success = FALSE
    /\ exit_status = <<>>
    /\ stdout = <<>>

\* no request is being served
NoWeb == [tokens |-> 0, initial |-> 0, conversions |-> 0, req |-> <<>>]

Init ==
    /\ args \in ArgSets
    /\ input \in Inputs
    /\ pc = "args"
    /\ frames = <<>>
    /\ delays = <<>>
    /\ Fresh
    /\ log = <<>>
    /\ web = NoWeb

\* ------------------------------------------------------ handle_arguments

ScaleOkClosed(scale) ==
    /\ 0 <= scale[1] /\ scale[1] <= ScaleDen
    /\ 0 <= scale[2] /\ scale[2] <= ScaleDen

\* 0.0 < args.scale[0] <= 1.0 and 0.0 < args.scale[1] <= 1.0
ScaleOk(scale) ==
    /\ 0 < scale[1] /\ scale[1] <= ScaleDen
    /\ 0 < scale[2] /\ scale[2] <= ScaleDen

Exit(code, msg) ==
    /\ exit_status' = <<code>>
    /\ stdout' = Append(stdout, msg)
    /\ pc' = "exit"

HandleArguments ==
    /\ pc = "args"
    /\ IF ScaleOk(args.scale)
       THEN pc' = "input" /\ UNCHANGED <<exit_status, stdout>>
       ELSE Exit(1, "Scale must be between 0.0 and 1.0")
    /\ UNCHANGED <<log, web, args, input, img_opened, n_loaded, tell, frames, delays, returned,
                   ascii_data, ret_delays, renderer, out_opened, out_file, success>>

\* ----------------------------------------------------------------- main

\* os.path.exists(args.input_file), then print("Converting...")
MainCheckInput ==
    /\ pc = "input"
    /\ IF input.kind = "missing"
       THEN Exit(1, "Input file not found")
       ELSE /\ pc' = "open"
            /\ stdout' = Append(stdout, "Converting...")
            /\ UNCHANGED exit_status
    /\ UNCHANGED <<log, web, args, input, img_opened, n_loaded, tell, frames, delays, returned,
                   ascii_data, ret_delays, renderer, out_opened, out_file, success>>

\* ------------------------------------------------------ convert_to_ascii

\* the outer handler: print the error, hand main the handler's result
Raise ==
    LET r == ExceptReturn(frames', delays')
    IN /\ ascii_data' = r.pixels
       /\ ret_delays' = r.delays
       /\ returned' = "except"
       /\ stdout' = Append(stdout, "Error processing")
       /\ pc' = "result"

\* with Image.open(input_file) as img: frames = []; delays = []
ConvertOpen ==
    /\ pc = "open"
    /\ frames' = <<>>
    /\ delays' = <<>>
    /\ IF input.kind = "image"
       THEN /\ img_opened' = TRUE
            /\ pc' = "decode"
            /\ UNCHANGED <<returned, ascii_data, ret_delays, stdout>>
       ELSE /\ Raise
            /\ UNCHANGED img_opened
    /\ UNCHANGED <<log, web, args, input, n_loaded, tell, renderer, out_opened, out_file, success,
                   exit_status>>

NewSizeCeil(img, scale) ==
    << (img.width * scale[1] + ScaleDen - 1) \div ScaleDen,
       (img.height * scale[2] + ScaleDen - 1) \div ScaleDen >>

\* new_size = (int(img.width * out_scale[0]), int(img.height * out_scale[1]))
NewSize(img, scale) ==
    << Trunc(img.width * scale[1], ScaleDen), Trunc(img.height * scale[2], ScaleDen) >>

\* frame.resize(new_size, LANCZOS): frame k (1-based) at the new size
Resize(k, size) ==
    [width |-> size[1], height |-> size[2],
     px |-> [y \in 1..size[2] |->
               [x \in 1..size[1] |-> Palette[((k + x + 2 * y) % Len(Palette)) + 1]]]]

\* int(img.info.get('duration', 100) / speed), speed # 0
DelayOf(img, k, speed) ==
    LET delay == IF img.durations[k] = NoDuration THEN DefaultDelay ELSE img.durations[k]
    IN Trunc(delay * SpeedDen, speed)

Event(stage, k) == [stage |-> stage, frame |-> k]

\* what one pass of the loop does to frame k: img.convert / img.copy, then
\* frame.resize, each only if the call before it returned
DecodeEvents(k, loaded, resized) ==
    (IF loaded THEN <<Event("decode", k)>> ELSE <<>>)
    \o (IF loaded /\ resized THEN <<Event("resample", k)>> ELSE <<>>)

\* one pass of the `while True` body for frame tell + 1
DecodeFrame ==
    /\ pc = "decode"
    /\ LET k    == tell + 1
           size == NewSize(input, args.scale)
       IN IF input.corrupt = k
          THEN \* img.convert / img.copy raises
               /\ UNCHANGED <<n_loaded, tell, frames, delays>>
               /\ Raise
          ELSE /\ n_loaded' = n_loaded + 1
               /\ IF size[1] < 1 \/ size[2] < 1
                  THEN \* resize: "height and width must be > 0"
                       /\ UNCHANGED <<tell, frames, delays>>
                       /\ Raise
                  ELSE /\ frames' = Append(frames, Resize(k, size))
                       /\ IF args.speed = 0
                          THEN \* delay / speed: ZeroDivisionError
                               /\ UNCHANGED <<tell, delays>>
                               /\ Raise
                          ELSE /\ delays' = Append(delays, DelayOf(input, k, args.speed))
                               /\ IF k < input.n_frames
                                  THEN \* img.seek(img.tell() + 1)
                                       /\ tell' = k
                                       /\ pc' = "decode"
                                  ELSE \* EOFError: end of frames
                                       /\ tell' = tell
                                       /\ pc' = "map"
                               /\ UNCHANGED <<returned, ascii_data, ret_delays, stdout>>
    /\ log' = log \o DecodeEvents(tell + 1, n_loaded' > n_loaded,
                                  Len(frames') > Len(frames))
    /\ UNCHANGED <<web, args, input, img_opened, renderer, out_opened, out_file, success,
                   exit_status>>

\* after the loop: the empty check, then the mapping of every frame; a fault
\* is an exception raised while mapping (np.array, memory)
ConvertMap ==
    /\ pc = "map"
    /\ \E fault \in BOOLEAN :
         IF frames = <<>>
         THEN /\ ascii_data' = <<>>
              /\ ret_delays' = <<>>
              /\ returned' = "no_frames"
              /\ stdout' = Append(stdout, "Failed to read image file")
              /\ pc' = "result"
         ELSE IF fault
         THEN /\ ascii_data' = ExceptReturn(frames, delays).pixels
              /\ ret_delays' = ExceptReturn(frames, delays).delays
              /\ returned' = "except"
              /\ stdout' = stdout \o <<"Loaded frames", "Error processing">>
              /\ pc' = "result"
         ELSE /\ ascii_data' = [k \in 1..Len(frames) |->
                                  MapFrame(frames[k], args.color, args.fillcolor,
                                           args.inverse)]
              /\ ret_delays' = delays
              /\ returned' = "ok"
              /\ stdout' = Append(stdout, "Loaded frames")
              /\ pc' = "result"
    /\ log' = log \o [k \in 1..Len(ascii_data') |-> Event("map", k)]
    /\ UNCHANGED <<web, args, input, img_opened, n_loaded, tell, frames, delays,
                   renderer, out_opened, out_file, success, exit_status>>

ConversionFailedIsNone(data) == FALSE

\* if not ascii_data
ConversionFailed(data) == data = <<>>

\* if not ascii_data: print("Conversion failed"); sys.exit(1)
MainCheckResult ==
    /\ pc = "result"
    /\ IF ConversionFailed(ascii_data)
       THEN Exit(1, "Conversion failed")
       ELSE /\ pc' = "render"
            /\ stdout' = Append(stdout, "Generating output...")
            /\ UNCHANGED exit_status
    /\ UNCHANGED <<log, web, args, input, img_opened, n_loaded, tell, frames, delays, returned,
                   ascii_data, ret_delays, renderer, out_opened, out_file, success>>

\* ------------------------------------------------------------ renderers

\* one text line: the characters of row y, columns left to right
\* (for x in range(len(frame)): if y < len(frame[x]): f.write(char))
RowChars(grid, y) ==
    LET xs == SelectSeq([x \in 1..Len(grid) |-> x], LAMBDA x : y <= Len(grid[x]))
    IN [i \in 1..Len(xs) |-> grid[xs[i]][y].char]

TextRowsByColumn(grid) ==
    IF grid # <<>> /\ grid[1] # <<>>
    THEN [x \in 1..Len(grid) |-> [y \in 1..Len(grid[x]) |-> grid[x][y].char]]
    ELSE <<>>

\* the character rows of one grid, top to bottom
TextRows(grid) ==
    IF grid # <<>> /\ grid[1] # <<>>
    THEN [y \in 1..Len(grid[1]) |-> RowChars(grid, y)]
    ELSE <<>>

\* f"Frame {frame_idx + 1} (Delay: {delays[frame_idx]}ms):", k = frame_idx + 1
Header(k, ds) ==
    <<"Frame ", ToString(k), " (Delay: ", ToString(ds[k]), "ms):">>

\* "-" * 50
Dashes == [i \in 1..DashCount |-> "-"]

\* what generate_ascii_animation writes for frames k.. (a line is a sequence
\* of strings, the empty sequence a blank line); delays[frame_idx] raises
\* IndexError past the end of delays, which ends the writing there
RECURSIVE AnimationLines(_, _, _)
AnimationLines(out_pixels, ds, k) ==
    IF k > Len(out_pixels) \/ k > Len(ds)
    THEN <<>>
    ELSE <<Header(k, ds), Dashes>> \o TextRows(out_pixels[k]) \o << <<>> >>
         \o AnimationLines(out_pixels, ds, k + 1)

\* the text file after `written` lines of `lines` went out
TextFile(lines, written) ==
    [kind |-> "text", lines |-> SubSeq(lines, 1, written), images |-> <<>>,
     save |-> <<>>]

\* write_ascii / generate_ascii_animation: open(out_file, 'w'), the writes,
\* the broad handler.  written = -1: open raised; written < Len(lines): a
\* write raised after that many lines; forced: the code itself raises
WriteText(lines, forced, ok_msg, err_msg) ==
    \E written \in {0 - 1, 0, Len(lines) - 1, Len(lines)} :
        /\ written >= 0 - 1
        /\ IF written < 0
           THEN UNCHANGED <<out_opened, out_file>>
           ELSE /\ out_opened' = TRUE
                /\ out_file' = TextFile(lines, written)
        /\ success' = (written = Len(lines) /\ ~forced)
        /\ stdout' = Append(stdout, IF success' THEN ok_msg ELSE err_msg)

\* one bitmap per grid: the cells drawn, column by column
\* (if x < len(frame_chars) and y < len(frame_chars[x]): draw.text(...))
Bitmap(frame_chars, width, height) ==
    [cols |-> width, rows |-> height,
     glyphs |-> { <<x, y, frame_chars[x][y]>> :
                     x \in { i \in 1..width : i <= Len(frame_chars) },
                     y \in 1..height } ]

SaveParamsOneDuration(out_images, ds) ==
    IF Len(out_images) > 1
    THEN <<[save_all |-> TRUE, duration |-> [k \in 1..Len(ds) |-> ds[1]], loop |-> 0,
            optimize |-> FALSE]>>
    ELSE <<>>

\* the keyword arguments of the save: out_images[0].save(out_file, save_all=True,
\* append_images=out_images[1:], duration=delays, loop=0, optimize=False) for
\* more than one image, out_images[0].save(out_file) for one
SaveParams(out_images, ds) ==
    IF Len(out_images) > 1
    THEN <<[save_all |-> TRUE, duration |-> ds, loop |-> 0, optimize |-> FALSE]>>
    ELSE <<>>

\* generate_gif: out_images, then one save (the font, the cell size in
\* pixels and the background color are not part of the model)
GenerateGif(chars, ds) ==
    IF chars = <<>> \/ chars[1] = <<>> \/ chars[1][1] = <<>>
    THEN /\ success' = FALSE
         /\ stdout' = Append(stdout, "No valid character data")
         /\ UNCHANGED <<out_opened, out_file>>
    ELSE LET width  == Len(chars[1])
             height == Len(chars[1][1])
             out_images == [k \in 1..Len(chars) |-> Bitmap(chars[k], width, height)]
             params == SaveParams(out_images, ds)
         IN \E outcome \in {"ok", "error", "partial"} :
              /\ IF outcome = "error"
                 THEN UNCHANGED <<out_opened, out_file>>
                 ELSE /\ out_opened' = TRUE
                      /\ out_file' = [kind |-> "image", lines |-> <<>>,
                                      images |-> IF outcome = "ok" THEN out_images
                                                 ELSE <<>>,
                                      save |-> params]
              /\ success' = (outcome = "ok")
              /\ stdout' = Append(stdout, IF success' THEN "Writing images"
                                          ELSE "Error generating GIF")

\* main: the choice of the renderer
Renderer(a, data) ==
    IF a.ascii
    THEN IF Len(data) = 1 THEN "write_ascii" ELSE "generate_ascii_animation"
    ELSE "generate_gif"

Render ==
    /\ pc = "render"
    /\ renderer' = Renderer(args, ascii_data)
    /\ IF renderer' = "write_ascii"
       THEN WriteText(TextRows(ascii_data[1]), FALSE,
                      "ASCII output saved", "Error writing ASCII")
       ELSE IF renderer' = "generate_ascii_animation"
       THEN WriteText(AnimationLines(ascii_data, ret_delays, 1),
                      Len(ret_delays) < Len(ascii_data),
                      "ASCII animation saved", "Error generating ASCII animation")
       ELSE GenerateGif(ascii_data, ret_delays)
    /\ log' = IF out_opened' THEN Append(log, Event("write", 0)) ELSE log
    /\ pc' = "finish"
    /\ UNCHANGED <<web, args, input, img_opened, n_loaded, tell, frames, delays, returned,
                   ascii_data, ret_delays, exit_status>>

FinishStatusAlwaysZero(ok) == 0

\* if success: print("Done!") (the process ends with status 0) else sys.exit(1)
FinishStatus(ok) == IF ok THEN 0 ELSE 1

MainFinish ==
    /\ pc = "finish"
    /\ Exit(FinishStatus(success), IF success THEN "Done!" ELSE "Output generation failed")
    /\ UNCHANGED <<log, web, args, input, img_opened, n_loaded, tell, frames, delays, returned,
                   ascii_data, ret_delays, renderer, out_opened, out_file, success>>

Next ==
    \/ HandleArguments
    \/ MainCheckInput
    \/ ConvertOpen
    \/ DecodeFrame
    \/ ConvertMap
    \/ MainCheckResult
    \/ Render
    \/ MainFinish

Spec == Init /\ [][Next]_vars

\* ------------------------------------- the brightness mapper on its own

\* first pixel: every sum of channels 0..765; second pixel: gray levels
PixelsA == { <<v, v, Min(ChannelMax, v + d)>> : v \in 0..ChannelMax, d \in 0..MaxSkew }
PixelsB == { <<u, u, u>> : u \in { g \in 0..ChannelMax : g % GrayStep \in {0, GrayStep - 1} } }

MapperInput == [kind |-> "image", width |-> 2, height |-> 1, n_frames |-> 1,
                durations |-> <<NoDuration>>, corrupt |-> 0]

\* convert_to_ascii at the mapping loop, with one resampled 2 x 1 frame
MapperInit ==
    /\ args \in [scale : {<<ScaleDen, ScaleDen>>}, speed : {SpeedDen},
                 inverse : BOOLEAN, color : BOOLEAN, ascii : {TRUE},
                 fillcolor : FillColors]
    /\ input = MapperInput
    /\ pc = "map"
    /\ \E a \in PixelsA, b \in PixelsB :
         frames = << [width |-> 2, height |-> 1, px |-> << <<a, b>> >>] >>
    /\ delays = <<DefaultDelay>>
    /\ img_opened = TRUE
    /\ n_loaded = 1
    /\ tell = 0
    /\ returned = "none"
    /\ ascii_data = <<>>
    /\ ret_delays = <<>>
    /\ renderer = "none"
    /\ out_opened = FALSE
    /\ out_file = NoOutput
    /\ success = FALSE
    /\ exit_status = <<>>
    /\ stdout = <<"Converting...">>
    /\ log = <<Event("decode", 1), Event("resample", 1)>>
    /\ web = NoWeb

MapperSpec == MapperInit /\ [][ConvertMap]_vars

\* ------------------------------------------------- the web front end

\* app.py, /api/convert for one logged-in user.  The server handles requests
\* in threads; each request has its own database session and its own User
\* object.  web.tokens is the tokens column of the user's row, web.req[i] the
\* request i: cached is the tokens attribute of its User object, response the
\* HTTP status it returned (0: none yet), reduced how far its commit lowered
\* the stored balance, recorded whether it stored a Conversion
cliVars == <<args, input, pc, img_opened, n_loaded, tell, frames, delays, returned,
             ascii_data, ret_delays, renderer, out_opened, out_file, success,
             exit_status, stdout, log>>

NewRequest == [pc |-> "start", cached |-> 0, response |-> 0, reduced |-> 0,
               recorded |-> FALSE]

WebInit ==
    /\ \E t \in 0..MaxTokens :
         web = [tokens |-> t, initial |-> t, conversions |-> 0,
                req |-> [i \in 1..MaxRequests |-> NewRequest]]
    /\ args = [scale |-> <<ScaleDen, ScaleDen>>, speed |-> SpeedDen, inverse |-> FALSE,
               color |-> FALSE, ascii |-> FALSE, fillcolor |-> White]
    /\ input = NoFile
    /\ pc = "args"
    /\ frames = <<>>
    /\ delays = <<>>
    /\ Fresh
    /\ log = <<>>

Respond(r, code) == [r EXCEPT !.pc = "done", !.response = code]

\* login_required / load_user: User.query.get reads the row into the request's
\* own User object
WebLoadUser(i) ==
    /\ web.req[i].pc = "start"
    /\ web' = [web EXCEPT !.req[i].pc = "check", !.req[i].cached = web.tokens]
    /\ UNCHANGED cliVars

\* the file checks, then `if current_user.tokens < tokens_needed`
WebCheck(i) ==
    /\ web.req[i].pc = "check"
    /\ \E file_ok \in BOOLEAN :
         web' = [web EXCEPT !.req[i] =
                    IF ~file_ok \/ web.req[i].cached < TokensNeeded
                    THEN Respond(@, 400)
                    ELSE [@ EXCEPT !.pc = "run"]]
    /\ UNCHANGED cliVars

\* subprocess.run(['python', 'new.py', ...], timeout=60): the exit status of
\* the converter, or an exception (a timeout) taken by the handler's except
WebRunConversion(i) ==
    /\ web.req[i].pc = "run"
    /\ \E outcome \in {"zero", "nonzero", "raise"} :
         web' = [web EXCEPT !.req[i] =
                    IF outcome = "zero" THEN [@ EXCEPT !.pc = "deduct"]
                    ELSE Respond(@, 500)]
    /\ UNCHANGED cliVars

\* User.use_tokens: (returned value, tokens afterwards)
UseTokens(have, amount) ==
    IF have >= amount THEN <<TRUE, have - amount>> ELSE <<FALSE, have>>

\* current_user.use_tokens(tokens_needed), its result ignored.  self.tokens is
\* the attribute loaded at the start of the request or, if the session
\* refreshed it, the stored value; the commit stores the new attribute value
WebUseTokens(i) ==
    /\ web.req[i].pc = "deduct"
    /\ \E have \in {web.req[i].cached, web.tokens} :
         LET u == UseTokens(have, TokensNeeded)
         IN web' = [web EXCEPT
                       !.tokens = IF u[1] THEN u[2] ELSE @,
                       !.req[i].cached = u[2],
                       !.req[i].reduced = IF u[1] THEN web.tokens - u[2] ELSE 0,
                       !.req[i].pc = "record"]
    /\ UNCHANGED cliVars

\* db.session.add(conversion); db.session.commit(); return success
WebRecord(i) ==
    /\ web.req[i].pc = "record"
    /\ web' = [web EXCEPT !.conversions = @ + 1,
                          !.req[i] = [Respond(@, 200) EXCEPT !.recorded = TRUE]]
    /\ UNCHANGED cliVars

WebNext ==
    \E i \in 1..MaxRequests :
        \/ WebLoadUser(i)
        \/ WebCheck(i)
        \/ WebRunConversion(i)
        \/ WebUseTokens(i)
        \/ WebRecord(i)

WebSpec == WebInit /\ [][WebNext]_vars

\* ---------------------------------------------------------------- claims

\* every (frame, column, row) position of the grids main received
Cells == { <<k, x, y>> \in (1..Len(ascii_data)) \X (1..MaxDim + 1) \X (1..MaxDim + 1) :
             x <= Len(ascii_data[k]) /\ y <= Len(ascii_data[k][x]) }

\* the resampled pixel a cell was made from
PixelAt(c) == frames[c[1]].px[c[3]][c[2]]
CellAt(c) == ascii_data[c[1]][c[2]][c[3]]

NonBlack(p) == p[1] # 0 \/ p[2] # 0 \/ p[3] # 0
Sum3(p) == p[1] + p[2] + p[3]

\* 0-based place of a character in the ramp
RampIndex(ch) == (CHOOSE i \in 1..Len(ASCII_TABLE) : ASCII_TABLE[i] = ch) - 1

\* i = floor(b / 256 * N) clamped to [0, N-1], for the brightness t/3
IsRampIndex(i, t) ==
    LET n == Len(ASCII_TABLE)
    IN \E q \in 0..n :
         /\ q * 3 * 256 <= t * n
         /\ t * n < (q + 1) * 3 * 256
         /\ i = IF q > n - 1 THEN n - 1 ELSE q

\* C1: every non-black pixel is given the ramp character at
\* floor(brightness / 256 * N) clamped to [0, N-1], brightness the unweighted
\* mean of the channels, or 255 - mean with inverse; with the 10-character
\* ramp white gives '@', (128,128,128) gives '+' and, inverted, '='
C1_RampIndex ==
    returned = "ok" =>
        \A c \in Cells :
            LET p == PixelAt(c)
                t == IF args.inverse THEN 3 * 255 - Sum3(p) ELSE Sum3(p)
            IN NonBlack(p) =>
                 /\ \E i \in 0..(Len(ASCII_TABLE) - 1) :
                        IsRampIndex(i, t) /\ CellAt(c).char = ASCII_TABLE[i + 1]
                 /\ (p = <<255, 255, 255>> /\ ~args.inverse) => CellAt(c).char = "@"
                 /\ (p = <<128, 128, 128>> /\ ~args.inverse) => CellAt(c).char = "+"
                 /\ (p = <<128, 128, 128>> /\ args.inverse) => CellAt(c).char = "="

C1_Witness ==
    /\ returned = "ok"
    /\ args.inverse
    /\ frames[1].px[1][1] = <<128, 128, 128>>
    /\ ascii_data[1][1][1].char = "="
    /\ frames[1].px[1][2] = <<255, 255, 255>>

\* C2 as amended: a pixel that is exactly (0,0,0) yields the first ramp
\* character with the configured fill color, whatever use_color and inverse
\* are; its color is (0,0,0) only when the fill color itself is (0,0,0)
C2_BlackIsBackground ==
    returned = "ok" =>
        \A c \in Cells :
            PixelAt(c) = <<0, 0, 0>> =>
                /\ CellAt(c).char = ASCII_TABLE[1]
                /\ CellAt(c).color = args.fillcolor
                /\ CellAt(c).color = <<0, 0, 0>> => args.fillcolor = <<0, 0, 0>>

\* C2 as stated: ... and a fully black pixel is never emitted with color (0,0,0)
C2_NeverBlackColor ==
    returned = "ok" =>
        \A c \in Cells :
            PixelAt(c) = <<0, 0, 0>> =>
                /\ CellAt(c).char = ASCII_TABLE[1]
                /\ CellAt(c).color = args.fillcolor
                /\ CellAt(c).color # <<0, 0, 0>>

C2_Witness ==
    /\ returned = "ok"
    /\ args.color
    /\ args.inverse
    /\ args.fillcolor = White
    /\ frames[1].px[1][1] = <<0, 0, 0>>
    /\ ascii_data[1][1][1] = [char |-> " ", color |-> White]

\* C3: of two non-black pixels mapped with the same options, the one with
\* the strictly greater channel mean has a ramp index at least as large
\* with inverse off, and at most as large with inverse on
C3_Monotone ==
    returned = "ok" =>
        \A a \in Cells, b \in Cells :
            (NonBlack(PixelAt(a)) /\ NonBlack(PixelAt(b))
                /\ Sum3(PixelAt(a)) > Sum3(PixelAt(b))) =>
                IF args.inverse
                THEN RampIndex(CellAt(a).char) <= RampIndex(CellAt(b).char)
                ELSE RampIndex(CellAt(a).char) >= RampIndex(CellAt(b).char)

C3_Witness ==
    /\ returned = "ok"
    /\ args.inverse
    /\ NonBlack(frames[1].px[1][2])
    /\ Sum3(frames[1].px[1][1]) > Sum3(frames[1].px[1][2])
    /\ RampIndex(ascii_data[1][1][1].char) < RampIndex(ascii_data[1][2][1].char)

Returned == returned # "none"
DecodeFailed == returned \in {"except", "no_frames"}
Printed(msg) == \E i \in 1..Len(stdout) : stdout[i] = msg

\* C4: whatever convert_to_ascii returns, delays and grids have the same
\* length: on success at least 1 and the number of decoded frames, on any
\* failure (also one raised between frames.append and delays.append) both 0
C4_SameLength ==
    Returned =>
        /\ Len(ret_delays) = Len(ascii_data)
        /\ returned = "ok" =>
              /\ Len(ascii_data) >= 1
              /\ Len(ascii_data) = n_loaded
              /\ Len(ascii_data) = input.n_frames
        /\ DecodeFailed => (ascii_data = <<>> /\ ret_delays = <<>>)

C4_Witness ==
    /\ returned = "except"
    /\ n_loaded = 1
    /\ Len(frames) = 1
    /\ Len(delays) = 0
    /\ ascii_data = <<>>
    /\ ret_delays = <<>>

\* k = floor(n * s), s the scale num / ScaleDen
IsFloorScaled(k, n, num) ==
    /\ k * ScaleDen <= n * num
    /\ n * num < (k + 1) * ScaleDen

\* C5: every returned grid has floor(original_width * scale_x) columns, each
\* of floor(original_height * scale_y) cells, one cell per resampled pixel
C5_GridDimensions ==
    returned = "ok" =>
        \A k \in 1..Len(ascii_data) :
            /\ IsFloorScaled(Len(ascii_data[k]), input.width, args.scale[1])
            /\ Len(ascii_data[k]) = frames[k].width
            /\ \A x \in 1..Len(ascii_data[k]) :
                  /\ IsFloorScaled(Len(ascii_data[k][x]), input.height, args.scale[2])
                  /\ Len(ascii_data[k][x]) = frames[k].height

C5_Witness ==
    /\ returned = "ok"
    /\ input.width = 2
    /\ input.height = 2
    /\ args.scale = <<1, 2>>
    /\ Len(ascii_data) = 2
    /\ Len(ascii_data[2]) = 1
    /\ Len(ascii_data[2][1]) = 2

ScaleOutOfRange ==
    \E i \in 1..2 : args.scale[i] <= 0 \/ args.scale[i] > ScaleDen

\* C6: with a scale outside (0.0, 1.0] the run ends in handle_arguments with
\* a non-zero status; convert_to_ascii is never called, no frame is decoded
\* and no output file is opened
C6_BadScaleRejected ==
    ScaleOutOfRange =>
        /\ pc \in {"args", "exit"}
        /\ pc = "args" => ENABLED HandleArguments
        /\ pc = "exit" => (exit_status = <<1>>
                           /\ stdout = <<"Scale must be between 0.0 and 1.0">>)
        /\ ~img_opened
        /\ n_loaded = 0
        /\ ~Returned
        /\ renderer = "none"
        /\ ~out_opened
        /\ out_file = NoOutput

C6_Witness ==
    /\ pc = "exit"
    /\ args.scale = <<ScaleDen + 1, ScaleDen>>
    /\ input.kind = "image"
    /\ exit_status = <<1>>

\* C7: a run started with speed <= 0 is rejected by option validation before
\* the decoder opens or reads any frame
C7_SpeedValidated ==
    args.speed <= 0 =>
        /\ ~img_opened
        /\ n_loaded = 0
        /\ pc \in {"args", "input", "exit"}

\* C8: main's exit status is 0 exactly when the selected renderer reported
\* success; it is non-zero when the input file is missing, a scale is out of
\* range, convert_to_ascii returned no frames, or the renderer returned False
C8_ExitStatus ==
    pc = "exit" =>
        /\ Len(exit_status) = 1
        /\ exit_status = <<0>> <=> (renderer # "none" /\ success)
        /\ input.kind = "missing" => exit_status[1] # 0
        /\ ScaleOutOfRange => exit_status[1] # 0
        /\ (Returned /\ ascii_data = <<>>) => exit_status[1] # 0
        /\ (renderer # "none" /\ ~success) => exit_status[1] # 0

C8_Witness ==
    /\ pc = "exit"
    /\ renderer = "generate_gif"
    /\ ~success
    /\ exit_status = <<1>>
    /\ Len(ascii_data) = 2

\* row y of grid g as the text renderer must write it
RowOf(g, y) == [x \in 1..Len(g) |-> g[x][y].char]
IsDashLine(l) == Len(l) = 50 /\ \A i \in 1..Len(l) : l[i] = "-"

\* C9: text renderer.  One grid: the file holds only its character rows, top
\* to bottom, columns left to right.  More grids: frame k (1-based) is the
\* line "Frame k (Delay: d_k ms):" with its own delay, a line of 50 dashes,
\* its rows, then a blank line, the frames in sequence order
C9_TextFormat ==
    (renderer # "none" /\ args.ascii) =>
        LET n == Len(ascii_data)
            h == Len(ascii_data[1][1])
            l == out_file.lines
        IN /\ renderer = IF n = 1 THEN "write_ascii" ELSE "generate_ascii_animation"
           /\ (success /\ n = 1) =>
                 /\ Len(l) = h
                 /\ \A y \in 1..h : l[y] = RowOf(ascii_data[1], y)
           /\ (success /\ n > 1) =>
                 /\ Len(l) >= n * (h + 3) - 1
                 /\ \A k \in 1..n :
                       LET base == (k - 1) * (h + 3)
                       IN /\ l[base + 1] = <<"Frame ", ToString(k), " (Delay: ",
                                             ToString(ret_delays[k]), "ms):">>
                          /\ IsDashLine(l[base + 2])
                          /\ \A y \in 1..h : l[base + 2 + y] = RowOf(ascii_data[k], y)
                          /\ k < n => l[base + h + 3] = <<>>

C9_Witness ==
    /\ renderer = "generate_ascii_animation"
    /\ success
    /\ Len(ascii_data) = 2
    /\ Len(ascii_data[1]) = 2
    /\ Len(ascii_data[1][1]) = 2
    /\ ret_delays = <<50, 100>>
    /\ out_file.lines[5] = <<>>
    /\ out_file.lines[6] = <<"Frame ", "2", " (Delay: ", "100", "ms):">>

\* C10: when decoding fails, convert_to_ascii returns the empty result
\* instead of raising, a message is printed, and main ends before any
\* renderer is called: the output file is never opened or written
C10_DecodeFailureAborts ==
    DecodeFailed =>
        /\ ascii_data = <<>>
        /\ ret_delays = <<>>
        /\ Printed("Error processing") \/ Printed("Failed to read image file")
        /\ pc \in {"result", "exit"}
        /\ pc = "result" => ENABLED MainCheckResult
        /\ pc = "exit" => (exit_status = <<1>> /\ Printed("Conversion failed"))
        /\ renderer = "none"
        /\ ~out_opened
        /\ out_file = NoOutput

C10_Witness ==
    /\ pc = "exit"
    /\ returned = "except"
    /\ input.kind = "image"
    /\ input.corrupt = 2
    /\ n_loaded = 1
    /\ exit_status = <<1>>
    /\ ~out_opened

\* C11: generate_gif makes exactly one bitmap per grid, in grid order; one
\* bitmap is saved as a static image, several as one animated image whose
\* durations are the delay list (frame k gets delay k), looping forever
\* (loop = 0) and with optimize off
C11_GifFrames ==
    (renderer = "generate_gif" /\ success) =>
        LET n == Len(ascii_data)
            f == out_file
        IN /\ f.kind = "image"
           /\ Len(f.images) = n
           /\ \A k \in 1..n :
                 f.images[k].glyphs =
                    { <<c[2], c[3], CellAt(c)>> : c \in { d \in Cells : d[1] = k } }
           /\ n = 1 => f.save = <<>>
           /\ n > 1 =>
                 /\ Len(f.save) = 1
                 /\ f.save[1].save_all
                 /\ Len(f.save[1].duration) = n
                 /\ \A k \in 1..n : f.save[1].duration[k] = ret_delays[k]
                 /\ f.save[1].loop = 0
                 /\ f.save[1].optimize = FALSE

C11_Witness ==
    /\ renderer = "generate_gif"
    /\ success
    /\ Len(ascii_data) = 2
    /\ ret_delays = <<50, 100>>
    /\ Len(out_file.images) = 2
    /\ out_file.images[1] # out_file.images[2]
    /\ out_file.save[1].duration = <<50, 100>>

StageRank(e) ==
    CASE e.stage = "decode" -> 1
      [] e.stage = "resample" -> 2
      [] e.stage = "map" -> 3
      [] e.stage = "write" -> 4

Before(e, j) == \E i \in 1..(j - 1) : log[i] = e

\* C12 as stated: the stages run in the order Decoder, Resampler, Brightness
\* Mapper, Animation Assembler, each finishing for all frames before the next
\* begins on any frame
C12_StagesInOrder ==
    \A i \in 1..Len(log), j \in 1..Len(log) :
        i < j => StageRank(log[i]) <= StageRank(log[j])

\* C12 as amended: decoding and resampling share one loop, each frame being
\* resampled right after it is decoded and before the next one is decoded;
\* no pixel is mapped before the last frame has been decoded and resampled,
\* and no output is written before the last frame has been mapped
C12_StagesInterleaved ==
    \A j \in 1..Len(log) :
        /\ log[j].stage = "resample" =>
              (j > 1 /\ log[j - 1] = Event("decode", log[j].frame))
        /\ log[j].stage \in {"decode", "resample"} =>
              \A i \in 1..(j - 1) : log[i].stage \in {"decode", "resample"}
        /\ log[j].stage = "map" =>
              /\ \A k \in 1..input.n_frames :
                    Before(Event("decode", k), j) /\ Before(Event("resample", k), j)
              /\ \A i \in 1..(j - 1) : log[i].stage # "write"
        /\ log[j].stage = "write" =>
              /\ j = Len(log)
              /\ \A i \in 1..Len(log) : log[i].stage = "decode" =>
                    Before(Event("map", log[i].frame), j)
              /\ \A k \in 1..input.n_frames : Before(Event("map", k), j)

C12_Witness ==
    /\ input.n_frames = 2
    /\ log = <<Event("decode", 1), Event("resample", 1), Event("decode", 2),
               Event("resample", 2), Event("map", 1), Event("map", 2),
               Event("write", 0)>>

Succeeded == { i \in 1..Len(web.req) : web.req[i].response = 200 }
Failed == { i \in 1..Len(web.req) : web.req[i].response = 500 }

====
